---- MODULE Spec2Model ----
(***************************************************************************)
(* Model of extract_density.py: extract_density_from_dscf_log scans a dscf *)
(* log line by line, enters the section that follows the start marker,     *)
(* leaves it at the separator, parses rows "<index> <element> <d1> ..."    *)
(* and assembles one table row per target atom.                            *)
(*                                                                         *)
(* Text is modelled character by character: a line is a sequence of        *)
(* one-character strings, so substring tests, strip/split, lower, int and  *)
(* float are computed and not assumed.  A float is the pair                *)
(* <<mantissa, exponent>> meaning mantissa / 10^exponent in lowest form;   *)
(* None is the empty tuple.                                                *)
(***************************************************************************)
EXTENDS Integers, Sequences, FiniteSets, TLC

\* ---------------------------------------------------------------- bounds
MaxLines == 3

\* ------------------------------------------------------- text primitives
None == <<>>

Digits == <<"0","1","2","3","4","5","6","7","8","9">>
UpperCase == <<"A","B","C","D","E","F","G","H","I","J","K","L","M","N","O","P","Q","R","S","T","U","V","W","X","Y","Z">>
LowerCase == <<"a","b","c","d","e","f","g","h","i","j","k","l","m","n","o","p","q","r","s","t","u","v","w","x","y","z">>

IsDigit(c) == \E d \in 1..10 : Digits[d] = c
DigitVal(c) == (CHOOSE d \in 1..10 : Digits[d] = c) - 1
IsSpace(c) == c \in {" ", "\t", "\n"}

\* str.lower(), character by character
LowerChar(c) ==
    IF \E i \in 1..26 : UpperCase[i] = c
    THEN LowerCase[CHOOSE i \in 1..26 : UpperCase[i] = c]
    ELSE c
lower(s) == [i \in 1..Len(s) |-> LowerChar(s[i])]

\* the `in` operator on strings: sub occurs in s as a contiguous substring
Contains(sub, s) ==
    \E i \in 0..(Len(s) - Len(sub)) : \A j \in 1..Len(sub) : s[i + j] = sub[j]

\* str.strip(): drop leading and trailing whitespace
RECURSIVE lstrip(_)
lstrip(s) == IF s # <<>> /\ IsSpace(s[1]) THEN lstrip(Tail(s)) ELSE s
RECURSIVE rstrip(_)
rstrip(s) == IF s # <<>> /\ IsSpace(s[Len(s)]) THEN rstrip(SubSeq(s, 1, Len(s) - 1)) ELSE s
strip(s) == rstrip(lstrip(s))

\* str.split() without argument: maximal runs of non-whitespace
RECURSIVE SplitFrom(_, _, _, _)
SplitFrom(s, i, cur, acc) ==
    IF i > Len(s)
    THEN (IF cur = <<>> THEN acc ELSE Append(acc, cur))
    ELSE IF IsSpace(s[i])
         THEN SplitFrom(s, i + 1, <<>>, IF cur = <<>> THEN acc ELSE Append(acc, cur))
         ELSE SplitFrom(s, i + 1, Append(cur, s[i]), acc)
split(s) == SplitFrom(s, 1, <<>>, <<>>)

\* value of a sequence of decimal digits
RECURSIVE DigitsValue(_)
DigitsValue(ds) ==
    IF ds = <<>> THEN 0
    ELSE 10 * DigitsValue(SubSeq(ds, 1, Len(ds) - 1)) + DigitVal(ds[Len(ds)])

Unsigned(t) == IF t # <<>> /\ t[1] \in {"+", "-"} THEN Tail(t) ELSE t
Sign(t) == IF t # <<>> /\ t[1] = "-" THEN -1 ELSE 1

\* int(token): optional sign and one or more digits, else ValueError
int_ok(t) ==
    /\ Unsigned(t) # <<>>
    /\ \A i \in 1..Len(Unsigned(t)) : IsDigit(Unsigned(t)[i])
int_val(t) == Sign(t) * DigitsValue(Unsigned(t))

\* float(token) on decimal literals: optional sign, digits with at most one
\* point and at least one digit, else ValueError
IsDigitChar(c) == IsDigit(c)
IsPoint(c) == c = "."
float_ok(t) ==
    LET u == Unsigned(t) IN
    /\ \A i \in 1..Len(u) : IsDigit(u[i]) \/ u[i] = "."
    /\ Cardinality({i \in 1..Len(u) : u[i] = "."}) <= 1
    /\ \E i \in 1..Len(u) : IsDigit(u[i])
RECURSIVE Normalize(_, _)
Normalize(m, e) ==
    IF e > 0 /\ m % 10 = 0 THEN Normalize(m \div 10, e - 1) ELSE <<m, e>>
float_val(t) ==
    LET u == Unsigned(t)
        ds == SelectSeq(u, IsDigitChar)
        pt == {i \in 1..Len(u) : u[i] = "."}
        frac == IF pt = {} THEN 0 ELSE Len(u) - (CHOOSE i \in pt : TRUE)
    IN Normalize(Sign(t) * DigitsValue(ds), frac)

\* ------------------------------------------------------------ the inputs
StartMarker == <<"a","t","o","m","i","c"," ","p","o","p","u","l","a","t","i","o","n","s"," ","f","r","o","m"," ","s","p","i","n"," "," ","d","e","n","s","i","t","y",":">>
EndMarker == <<"=","=","=","=","=">>

\* "atomic populations from spin  density:"
LineStart == <<"a","t","o","m","i","c"," ","p","o","p","u","l","a","t","i","o","n","s"," ","f","r","o","m"," ","s","p","i","n"," "," ","d","e","n","s","i","t","y",":","\n">>
\* "====="
LineSep == <<"=","=","=","=","=","\n">>
\* "===== atomic populations from spin  density:"
LineBoth == <<"=","=","=","=","="," ","a","t","o","m","i","c"," ","p","o","p","u","l","a","t","i","o","n","s"," ","f","r","o","m"," ","s","p","i","n"," "," ","d","e","n","s","i","t","y",":","\n">>
\* "66 s 1.0 2.0"
LineRow == <<"6","6"," ","s"," ","1",".","0"," ","2",".","0","\n">>
\* " 066  S 3 "
LineUpper == <<" ","0","6","6"," "," ","S"," ","3"," ","\n">>
\* "66 s 1 2 3 4 5 6 7"
LineSeven == <<"6","6"," ","s"," ","1"," ","2"," ","3"," ","4"," ","5"," ","6"," ","7","\n">>
\* "66 s x 0.5"
LineBadFloat == <<"6","6"," ","s"," ","x"," ","0",".","5","\n">>
\* "atomic populations from spin density:" (one space: not the marker)
LineBadInt == <<"a","t","o","m","i","c"," ","p","o","p","u","l","a","t","i","o","n","s"," ","f","r","o","m"," ","s","p","i","n"," ","d","e","n","s","i","t","y",":","\n">>
\* "66 s"
LineShort == <<"6","6"," ","s","\n">>
\* "67 o 2.5"
LineOther == <<"6","7"," ","o"," ","2",".","5","\n">>

LineSet == {LineStart, LineSep, LineBoth, LineRow, LineUpper, LineSeven,
            LineBadFloat, LineBadInt, LineShort, LineOther}

Logs == UNION {[1..n -> LineSet] : n \in 0..MaxLines}

\* target_atoms as ordered (key, value) items of the dict
Item(k, e) == [atom_num |-> k, element |-> e]
TargetSpecs == { <<Item(67, <<"o">>), Item(66, <<"s">>)>>,
                 <<Item(66, <<"S">>)>>,
                 <<Item(67, <<"s">>)>> }

OpenErrors == {"FileNotFoundError", "PermissionError"}

\* ------------------------------------------------------------- the state
VARIABLES target_atoms, log, pc, open_error, pos, within_target_section,
          extracted_data, df, output_written, printed, src

vars == <<target_atoms, log, pc, open_error, pos, within_target_section,
          extracted_data, df, output_written, printed, src>>

\* dict operations on the ordered items
Keys(d) == {d[r].atom_num : r \in 1..Len(d)}
IndexOf(d, k) == CHOOSE r \in 1..Len(d) : d[r].atom_num = k
Value(d, k) == d[IndexOf(d, k)].element

ColumnNames == <<"Atom Number", "Element", "sum", "n(s)", "n(p)", "n(d)", "n(f)", "n(g)">>
NoFrame == [c \in {ColumnNames[i] : i \in 1..Len(ColumnNames)} |-> <<>>]

\* variant: the flag starts set
WithinInit_Set == TRUE
WithinInit == FALSE

\* line 23: one entry per item of target_atoms, in its order
InitialData(ta) ==
    [r \in 1..Len(ta) |->
        [atom_num |-> ta[r].atom_num, Element |-> ta[r].element, Densities |-> <<>>]]

Init ==
    /\ target_atoms \in TargetSpecs
    /\ log \in Logs
    /\ pc = "open"
    /\ open_error = "none"
    /\ pos = 0
    /\ within_target_section = WithinInit
    /\ extracted_data = InitialData(target_atoms)
    /\ df = NoFrame
    /\ output_written = FALSE
    /\ printed = "none"
    /\ src = [r \in 1..Len(target_atoms) |-> 0]

\* ------------------------------------------------------- opening the file
\* variant: the handler catches every open failure
Caught_Any(e) == TRUE
Caught(e) == e = "FileNotFoundError"

OpenOk ==
    /\ pc = "open"
    /\ pc' = "scan"
    /\ UNCHANGED <<target_atoms, log, open_error, pos, within_target_section,
                   extracted_data, df, output_written, printed, src>>

OpenFails ==
    /\ pc = "open"
    /\ \E e \in OpenErrors :
         /\ open_error' = e
         /\ IF Caught(e)
            THEN printed' = "not found" /\ pc' = "returned"
            ELSE printed' = printed /\ pc' = "raised"
    /\ UNCHANGED <<target_atoms, log, pos, within_target_section,
                   extracted_data, df, output_written, src>>

\* ------------------------------------------------------------- the scan
line == log[pos + 1]
HasStart(l) == Contains(StartMarker, l)
HasEnd(l) == Contains(EndMarker, l)
\* variants: the separator never stops the scan; it stops it outside the section too
StopsScan_Never(within, l) == FALSE
StopsScan_Unguarded(within, l) == HasEnd(l)
StopsScan(within, l) == within /\ HasEnd(l)

Parts(l) == split(strip(l))
RaisesValueError(parts) ==
    \/ ~int_ok(parts[1])
    \/ \E j \in 3..Len(parts) : ~float_ok(parts[j])
AtomNumber(parts) == int_val(parts[1])
ElementOf(parts) == lower(parts[2])
DensitiesOf(parts) == [j \in 1..(Len(parts) - 2) |-> float_val(parts[j + 2])]
\* variant: the element is not compared
Matches_IndexOnly(ta, atom_number, element) == atom_number \in Keys(ta)
Matches(ta, atom_number, element) ==
    atom_number \in Keys(ta) /\ Value(ta, atom_number) = element
\* variant: the new values are laid over the old ones, extra old values stay
NewDensities_Merge(old, densities) ==
    IF Len(old) > Len(densities)
    THEN densities \o SubSeq(old, Len(densities) + 1, Len(old))
    ELSE densities
NewDensities(old, densities) == densities

LineIsStart ==
    /\ pc = "scan" /\ pos < Len(log)
    /\ HasStart(line)
    /\ within_target_section' = TRUE
    /\ pos' = pos + 1
    /\ UNCHANGED <<target_atoms, log, pc, open_error, extracted_data, df,
                   output_written, printed, src>>

\* variant: the separator line is consumed and the scan goes on
LineIsEnd_Continue ==
    /\ pc = "scan" /\ pos < Len(log)
    /\ ~HasStart(line)
    /\ StopsScan(within_target_section, line)
    /\ pos' = pos + 1
    /\ UNCHANGED <<target_atoms, log, pc, open_error, within_target_section,
                   extracted_data, df, output_written, printed, src>>

LineIsEnd ==
    /\ pc = "scan" /\ pos < Len(log)
    /\ ~HasStart(line)
    /\ StopsScan(within_target_section, line)
    /\ pos' = pos + 1
    /\ pc' = "assemble"
    /\ UNCHANGED <<target_atoms, log, open_error, within_target_section,
                   extracted_data, df, output_written, printed, src>>

LineOutside ==
    /\ pc = "scan" /\ pos < Len(log)
    /\ ~HasStart(line)
    /\ ~StopsScan(within_target_section, line)
    /\ ~within_target_section
    /\ pos' = pos + 1
    /\ UNCHANGED <<target_atoms, log, pc, open_error, within_target_section,
                   extracted_data, df, output_written, printed, src>>

InRowBranch ==
    /\ pc = "scan" /\ pos < Len(log)
    /\ ~HasStart(line)
    /\ ~StopsScan(within_target_section, line)
    /\ within_target_section

LineTooShort ==
    /\ InRowBranch
    /\ Len(Parts(line)) < 3
    /\ pos' = pos + 1
    /\ UNCHANGED <<target_atoms, log, pc, open_error, within_target_section,
                   extracted_data, df, output_written, printed, src>>

LineValueError ==
    /\ InRowBranch
    /\ Len(Parts(line)) >= 3
    /\ RaisesValueError(Parts(line))
    /\ pos' = pos + 1
    /\ UNCHANGED <<target_atoms, log, pc, open_error, within_target_section,
                   extracted_data, df, output_written, printed, src>>

LineNoMatch ==
    /\ InRowBranch
    /\ Len(Parts(line)) >= 3
    /\ ~RaisesValueError(Parts(line))
    /\ ~Matches(target_atoms, AtomNumber(Parts(line)), ElementOf(Parts(line)))
    /\ pos' = pos + 1
    /\ UNCHANGED <<target_atoms, log, pc, open_error, within_target_section,
                   extracted_data, df, output_written, printed, src>>

LineAccepted ==
    /\ InRowBranch
    /\ Len(Parts(line)) >= 3
    /\ ~RaisesValueError(Parts(line))
    /\ Matches(target_atoms, AtomNumber(Parts(line)), ElementOf(Parts(line)))
    /\ LET r == IndexOf(extracted_data, AtomNumber(Parts(line))) IN
         /\ extracted_data' = [extracted_data EXCEPT ![r].Densities =
                                  NewDensities(@, DensitiesOf(Parts(line)))]
         /\ src' = [src EXCEPT ![r] = pos + 1]
    /\ pos' = pos + 1
    /\ UNCHANGED <<target_atoms, log, pc, open_error, within_target_section,
                   df, output_written, printed>>

EndOfFile ==
    /\ pc = "scan" /\ pos = Len(log)
    /\ pc' = "assemble"
    /\ UNCHANGED <<target_atoms, log, open_error, pos, within_target_section,
                   extracted_data, df, output_written, printed, src>>

\* ------------------------------------------------------------- the table
\* variant: a missing value is zero
Slot_Zero(densities, i) == IF Len(densities) > i THEN densities[i + 1] ELSE <<0, 0>>
Slot(densities, i) == IF Len(densities) > i THEN densities[i + 1] ELSE None
\* variant: atoms without densities are left out
HasDensities(d) == d.Densities # <<>>
AtomNumberColumn_Matched(ed) ==
    LET m == SelectSeq(ed, HasDensities) IN [r \in 1..Len(m) |-> m[r].atom_num]
AtomNumberColumn(ed) == [r \in 1..Len(ed) |-> ed[r].atom_num]
ElementColumn(ed) == [r \in 1..Len(ed) |-> ed[r].Element]
SlotColumn(ed, i) == [r \in 1..Len(ed) |-> Slot(ed[r].Densities, i)]
DataFrame(ed) ==
    [c \in DOMAIN NoFrame |->
        IF c = "Atom Number" THEN AtomNumberColumn(ed)
        ELSE IF c = "Element" THEN ElementColumn(ed)
        ELSE SlotColumn(ed, (CHOOSE i \in 3..8 : ColumnNames[i] = c) - 3)]

Assemble ==
    /\ pc = "assemble"
    /\ df' = DataFrame(extracted_data)
    /\ pc' = "write"
    /\ UNCHANGED <<target_atoms, log, open_error, pos, within_target_section,
                   extracted_data, output_written, printed, src>>

WriteOutput ==
    /\ pc = "write"
    /\ output_written' = TRUE
    /\ printed' = "complete"
    /\ pc' = "returned"
    /\ UNCHANGED <<target_atoms, log, open_error, pos, within_target_section,
                   extracted_data, df, src>>

Next ==
    \/ OpenOk
    \/ OpenFails
    \/ LineIsStart
    \/ LineIsEnd
    \/ LineOutside
    \/ LineTooShort
    \/ LineValueError
    \/ LineNoMatch
    \/ LineAccepted
    \/ EndOfFile
    \/ Assemble
    \/ WriteOutput

Spec == Init /\ [][Next]_vars

\* ------------------------------------------------------------ properties
ScanDone == pc \in {"assemble", "write", "returned"} /\ open_error = "none"
Built == pc \in {"write", "returned"} /\ open_error = "none"
SlotOf(r, i) == df[ColumnNames[i + 3]][r]

\* index of the first line holding the start marker, 0 if there is none
FirstStart ==
    IF \E i \in 1..Len(log) : HasStart(log[i])
    THEN CHOOSE i \in 1..Len(log) :
           HasStart(log[i]) /\ \A j \in 1..(i - 1) : ~HasStart(log[j])
    ELSE 0

\* line i is after the first start marker and before the first later line
\* that holds "====="
BetweenMarkers(i) ==
    LET f == FirstStart IN
    /\ f # 0 /\ i > f
    /\ ~HasStart(log[i])
    /\ \A j \in (f + 1)..i : ~HasEnd(log[j])

\* the same, where only a "=====" line without the start marker ends the section
BetweenMarkersProper(i) ==
    LET f == FirstStart IN
    /\ f # 0 /\ i > f
    /\ ~HasStart(log[i])
    /\ \A j \in (f + 1)..i : ~(HasEnd(log[j]) /\ ~HasStart(log[j]))

WellFormed(l) ==
    /\ Len(Parts(l)) >= 3
    /\ int_ok(Parts(l)[1])
    /\ \A j \in 3..Len(Parts(l)) : float_ok(Parts(l)[j])

\* l is a well-formed row whose index and lower-cased element are those of item r
RowFor(l, r) ==
    /\ WellFormed(l)
    /\ int_val(Parts(l)[1]) = target_atoms[r].atom_num
    /\ lower(Parts(l)[2]) = target_atoms[r].element

Max(S) == CHOOSE m \in S : \A n \in S : n <= m

\* C1: once the file was opened, the table has one record per TargetSpec key
\* and its atom indices are the keys in TargetSpec order.
C1_OneRecordPerKey ==
    Built =>
        /\ df["Atom Number"] = [r \in 1..Len(target_atoms) |-> target_atoms[r].atom_num]
        /\ \A c \in DOMAIN df : Len(df[c]) = Len(target_atoms)

C1_Witness ==
    /\ pc = "returned" /\ output_written
    /\ Len(target_atoms) = 2 /\ target_atoms[1].atom_num = 67
    /\ src[1] = 0 /\ src[2] # 0

\* C2: with no start marker anywhere in the log, every record has all six
\* slots null after the scan, whatever rows the log holds.
C2_NoMarkerAllNull ==
    (ScanDone /\ \A i \in 1..Len(log) : ~HasStart(log[i])) =>
        \A r \in 1..Len(target_atoms) :
            /\ extracted_data[r].Densities = <<>>
            /\ Built => \A i \in 0..5 : SlotOf(r, i) = None

C2_Witness ==
    /\ pc = "returned" /\ output_written
    /\ \A i \in 1..Len(log) : ~HasStart(log[i])
    /\ \E i \in 1..Len(log), r \in 1..Len(target_atoms) : RowFor(log[i], r)

C4_SlotsByPosition ==
    Built =>
        /\ DOMAIN df = {ColumnNames[c] : c \in 1..8}
        /\ \A r \in 1..Len(target_atoms), i \in 0..5 :
             /\ SlotOf(r, i) # None <=>
                   (src[r] # 0 /\ Len(Parts(log[src[r]])) - 2 >= i + 1)
             /\ SlotOf(r, i) # None =>
                   SlotOf(r, i) = float_val(Parts(log[src[r]])[i + 3])

C4_Witness ==
    /\ pc = "returned" /\ output_written
    /\ \E r \in 1..Len(target_atoms) :
         /\ src[r] # 0 /\ Len(Parts(log[src[r]])) = 9
         /\ SlotOf(r, 5) = <<6, 0>>

\* C5 (as claimed): a well-formed row read inside the section with index k
\* and element e is accepted exactly when k is a key and lower(e) equals
\* lower(TargetSpec[k]).
C5_CaseInsensitive ==
    [][ (InRowBranch /\ WellFormed(line)) =>
          LET k == int_val(Parts(line)[1])
              e == Parts(line)[2]
          IN (k \in Keys(target_atoms) /\ lower(e) = lower(Value(target_atoms, k)))
             <=> (k \in Keys(target_atoms) /\ src'[IndexOf(target_atoms, k)] = pos + 1)
      ]_vars

\* C6: when several lines of the section match the same target atom, the
\* densities kept at the end of the scan are exactly those of the last one,
\* the table shows them, and no error is raised.
C6_LastMatchWins ==
    ScanDone =>
        \A r \in 1..Len(target_atoms) :
            LET M == {i \in 1..Len(log) : BetweenMarkersProper(i) /\ RowFor(log[i], r)} IN
            Cardinality(M) >= 2 =>
                /\ extracted_data[r].Densities = DensitiesOf(Parts(log[Max(M)]))
                /\ Built => \A i \in 0..5 :
                       SlotOf(r, i) = IF Len(Parts(log[Max(M)])) - 2 > i
                                      THEN float_val(Parts(log[Max(M)])[i + 3])
                                      ELSE None

C6_Witness ==
    /\ pc = "returned" /\ output_written
    /\ Len(log) = 3 /\ log[2] = LineRow /\ log[3] = LineUpper
    /\ \E r \in 1..Len(target_atoms) :
         /\ src[r] = 3
         /\ SlotOf(r, 0) = <<3, 0>> /\ SlotOf(r, 1) = None

\* C7: a line read inside the section that is not an accepted row (too few
\* tokens, bad integer, bad number, index not a key, element mismatch) leaves
\* all stored densities unchanged, raises nothing, and the scan goes on.
NotARow(l) ==
    \/ Len(Parts(l)) < 3
    \/ ~int_ok(Parts(l)[1])
    \/ \E j \in 3..Len(Parts(l)) : ~float_ok(Parts(l)[j])
    \/ int_val(Parts(l)[1]) \notin Keys(target_atoms)
    \/ lower(Parts(l)[2]) # lower(Value(target_atoms, int_val(Parts(l)[1])))

C7_RejectedLineIsSkipped ==
    [][ ( /\ pc = "scan" /\ pos < Len(log) /\ within_target_section
          /\ ~HasStart(line) /\ ~HasEnd(line)
          /\ NotARow(line) ) =>
          /\ extracted_data' = extracted_data
          /\ src' = src
          /\ pc' = "scan" /\ pos' = pos + 1
          /\ within_target_section'
      ]_vars

C7_Witness ==
    /\ pos = 3 /\ within_target_section
    /\ HasStart(log[1]) /\ ~HasStart(log[2]) /\ ~HasEnd(log[2]) /\ NotARow(log[2])
    /\ \E r \in 1..Len(target_atoms) : src[r] = 3

\* C8 (as claimed): whenever the open fails the function reports it and
\* returns, having parsed nothing and written nothing.
C8_Original ==
    open_error # "none" =>
        /\ pc = "returned" /\ printed = "not found"
        /\ pos = 0 /\ ~output_written /\ df = NoFrame

\* C8 (amended): whenever the open fails nothing is parsed and nothing is
\* written; a FileNotFoundError is reported and the function returns, any
\* other failure leaves the function as an exception, unreported.
C8_OpenFailure ==
    open_error # "none" =>
        /\ pos = 0 /\ ~output_written /\ df = NoFrame
        /\ extracted_data = InitialData(target_atoms)
        /\ IF open_error = "FileNotFoundError"
           THEN pc = "returned" /\ printed = "not found"
           ELSE pc = "raised" /\ printed = "none"

C8_Witness ==
    /\ open_error = "PermissionError" /\ pc = "raised"
    /\ ~output_written /\ Len(log) > 0

\* C9 (as claimed): inside the section every line that holds "=====" stops
\* the scan, is not processed as data, and nothing is read afterwards.
C9_Original ==
    [][ /\ (pc = "scan" /\ pos < Len(log) /\ within_target_section /\ HasEnd(line)) =>
             (pc' = "assemble" /\ extracted_data' = extracted_data /\ src' = src)
        /\ pc \in {"assemble", "write", "returned"} => pos' = pos
      ]_vars

\* C9 (amended): inside the section every line that holds "=====" and does
\* not hold the start marker stops the scan, is not processed as data, and
\* nothing is read afterwards.
C9_SeparatorStops ==
    [][ /\ ( /\ pc = "scan" /\ pos < Len(log) /\ within_target_section
             /\ HasEnd(line) /\ ~HasStart(line) ) =>
             (pc' = "assemble" /\ extracted_data' = extracted_data /\ src' = src)
        /\ pc \in {"assemble", "write", "returned"} => pos' = pos
      ]_vars

C9_Witness ==
    /\ pc = "returned" /\ output_written
    /\ pos = 2 /\ HasStart(log[1]) /\ HasEnd(log[2]) /\ ~HasStart(log[2])
    /\ Len(log) = 3
    /\ \E r \in 1..Len(target_atoms) : RowFor(log[3], r) /\ src[r] = 0

\* C10: a "=====" line read before the start marker was seen does not stop
\* the scan and changes nothing; the later start marker still opens the
\* section and the rows after it are accepted.
C10_EarlySeparatorHarmless ==
    [][ ( /\ pc = "scan" /\ pos < Len(log) /\ ~within_target_section
          /\ HasEnd(line) /\ ~HasStart(line) ) =>
          /\ pc' = "scan" /\ pos' = pos + 1
          /\ UNCHANGED <<within_target_section, extracted_data, src, df,
                         output_written, printed>>
      ]_vars

C10_Witness ==
    /\ pc = "returned" /\ output_written
    /\ Len(log) = 3 /\ HasEnd(log[1]) /\ ~HasStart(log[1]) /\ HasStart(log[2])
    /\ \E r \in 1..Len(target_atoms) : src[r] = 3

TypeOK ==
    /\ pc \in {"open", "scan", "assemble", "write", "returned", "raised"}
    /\ pos \in 0..Len(log)
    /\ within_target_section \in BOOLEAN
    /\ Len(extracted_data) = Len(target_atoms)
====
